---- MODULE Spec2Model ----
(***************************************************************************)
(* Model of the remote provisioning session layer of cfdev:                *)
(*   provision/director.go  - waitForSSH / NewSSH (dial supervisor),       *)
(*                            SSH.Run / SendFile / SendData / RetrieveFile *)
(*                            (sticky-error session), Controller.DeployBosh*)
(* Three specifications share one set of variables:                        *)
(*   SpecDial    - waitForSSH with discrete time (one unit = one second,   *)
(*                 the ticker period);                                     *)
(*   SpecSession - arbitrary chains of session operations on one SSH;      *)
(*   Spec        - the DeployBosh workflow;                                *)
(*   SpecPatch   - the substitutions made on director.yml;                 *)
(*   SpecWrapper - pkg/servicew/client/client.go, calls on a ServiceWrapper.*)
(***************************************************************************)
EXTENDS Integers, Sequences, FiniteSets, TLC

(* ---------------- bounds of the model ---------------- *)
\* largest timeout handed to waitForSSH, in ticker periods
MaxTimeout == 2
\* longest duration of one ssh.Dial call, in ticker periods
MaxDial == 2
\* most dial attempts explored
MaxAttempts == 4
\* the clock stops here
MaxTime == 7

\* longest director.yml patched on its own, in pieces
MaxText == 5

\* most operations in one chain on a session
MaxOps == 2
\* most calls made on one ServiceWrapper
MaxCalls == 3
\* longest payload and longest local file, in bytes
MaxLen == 1

VARIABLES
    dial,   \* waitForSSH / NewSSH: the caller, the retry goroutine, the clock
    ssh,    \* the SSH struct, the flow calling its methods, what it has done
    chans,  \* per operation called: its ssh session (channel), remote command, writer
    fs,     \* the local files: path -> [exists, data]
    dep,    \* Controller.DeployBosh: where it is, what it returned
    sw      \* the ServiceWrapper client: its work directory, its last calls

vars == <<dial, ssh, chans, fs, dep, sw>>

(* ---------------- errors and results ---------------- *)
\* the ServiceWrapper client when it is not the program under study
SWIdle == [files |-> {}, n |-> 0]

NilErr == [kind |-> "nil", wraps |-> 0]
KeyFormatErr == [kind |-> "key", wraps |-> 0]
TimeoutErr(e) == [kind |-> "timeout", wraps |-> e]
NoResult == [session |-> 0, err |-> [kind |-> "none", wraps |-> 0]]

\* NewSSH: a nil session with the error, or the session around the client
NewSSH(client, e) ==
    IF e.kind # "nil" THEN [session |-> 0, err |-> e]
    ELSE [session |-> client, err |-> NilErr]

(* ---------------- waitForSSH ---------------- *)
\* The fields of dial:
\*   now          the clock, in seconds since waitForSSH was called
\*   timeout      parameter timeout of waitForSSH
\*   keyOK        whether ssh.ParsePrivateKey accepts the key
\*   cpc, gpc     position of the caller, of the retry goroutine
\*   tickC        ticker.C: number of buffered ticks (capacity 1)
\*   timeoutC     channel of time.After(timeout): buffered values (capacity 1)
\*   dialEnd      when the ssh.Dial in flight returns
\*   dialRes      whether the ssh.Dial in flight succeeds
\*   err          the goroutine's variable err: 0 is nil, k the error of attempt k
\*   attempts     number of ssh.Dial calls started
\*   starts, ends start and return time of each ssh.Dial call
\*   succAttempt  the attempt that succeeded (0: none yet), succTime: when
\*   pend         the pair the goroutine is about to send on its two channels
\*   clientChan   chan *ssh.Client, capacity 1
\*   errorChan    chan error, capacity 1
\*   result       what NewSSH returned
DialStart(t, k) ==
    [now |-> 0, timeout |-> t, keyOK |-> k, cpc |-> "parse", gpc |-> "none",
     tickC |-> 0, timeoutC |-> 0, dialEnd |-> 0, dialRes |-> FALSE, err |-> 0,
     attempts |-> 0, starts |-> <<>>, ends |-> <<>>, succAttempt |-> 0,
     succTime |-> 0, pend |-> [client |-> 0, err |-> NilErr],
     clientChan |-> <<>>, errorChan |-> <<>>, result |-> NoResult]

\* ParsePrivateKey, then either the early return or the go statement; the
\* goroutine creates its ticker and its timer as it starts
ParseKeyIgnoresError ==
    /\ dial.cpc = "parse"
    /\ dial' = [dial EXCEPT !.cpc = "recvClient", !.gpc = "select",
                            !.timeoutC = IF dial.timeout = 0 THEN 1 ELSE 0]
ParseKey ==
    /\ dial.cpc = "parse"
    /\ IF dial.keyOK
       THEN dial' = [dial EXCEPT !.cpc = "recvClient", !.gpc = "select",
                                 !.timeoutC = IF dial.timeout = 0 THEN 1 ELSE 0]
       ELSE dial' = [dial EXCEPT !.cpc = "returned",
                                 !.result = NewSSH(0, KeyFormatErr)]

\* case <-ticker.C: the goroutine calls ssh.Dial, which takes d seconds
SelectTick ==
    /\ dial.gpc = "select"
    /\ dial.tickC = 1
    /\ dial.attempts < MaxAttempts
    /\ \E d \in 0..MaxDial, ok \in BOOLEAN :
          /\ dial.now + d <= MaxTime
          /\ dial' = [dial EXCEPT !.tickC = 0, !.attempts = @ + 1,
                                  !.starts = Append(@, dial.now), !.gpc = "dialing",
                                  !.dialEnd = dial.now + d, !.dialRes = ok]

\* ssh.Dial returns: client, err = ...; if err == nil the goroutine goes on to send
DialReturn ==
    /\ dial.gpc = "dialing"
    /\ dial.now = dial.dialEnd
    /\ IF dial.dialRes
       THEN dial' = [dial EXCEPT !.err = 0, !.succAttempt = dial.attempts,
                                 !.succTime = dial.now,
                                 !.pend = [client |-> dial.attempts, err |-> NilErr],
                                 !.gpc = "sendClient",
                                 !.ends = Append(@, dial.now)]
       ELSE dial' = [dial EXCEPT !.err = dial.attempts, !.gpc = "select",
                                 !.ends = Append(@, dial.now)]

\* case <-timeout: the goroutine goes on to send nil and the timeout error
SelectTimeoutReturnsSilently ==
    /\ dial.gpc = "select"
    /\ dial.timeoutC = 1
    /\ dial' = [dial EXCEPT !.timeoutC = 0, !.gpc = "done"]
SelectTimeoutSendsNilError ==
    /\ dial.gpc = "select"
    /\ dial.timeoutC = 1
    /\ dial' = [dial EXCEPT !.timeoutC = 0, !.gpc = "sendClient",
                            !.pend = [client |-> 0, err |-> NilErr]]
SelectTimeout ==
    /\ dial.gpc = "select"
    /\ dial.timeoutC = 1
    /\ dial' = [dial EXCEPT !.timeoutC = 0, !.gpc = "sendClient",
                            !.pend = [client |-> 0, err |-> TimeoutErr(dial.err)]]

\* clientChan <- client (or nil); blocks while the buffer is full
SendClient ==
    /\ dial.gpc = "sendClient"
    /\ Len(dial.clientChan) < 1
    /\ dial' = [dial EXCEPT !.clientChan = Append(@, dial.pend.client),
                            !.gpc = "sendError"]

\* errorChan <- nil (or the timeout error), then return
SendErrorMissingReturn ==
    /\ dial.gpc = "sendError"
    /\ Len(dial.errorChan) < 1
    /\ dial' = [dial EXCEPT !.errorChan = Append(@, dial.pend.err),
                            !.gpc = IF dial.pend.err.kind = "nil" THEN "select"
                                    ELSE "done"]
SendError ==
    /\ dial.gpc = "sendError"
    /\ Len(dial.errorChan) < 1
    /\ dial' = [dial EXCEPT !.errorChan = Append(@, dial.pend.err), !.gpc = "done"]

\* return <-clientChan, <-errorChan: the operands are received left to right
RecvClient ==
    /\ dial.cpc = "recvClient"
    /\ Len(dial.clientChan) > 0
    /\ dial' = [dial EXCEPT !.result.session = Head(dial.clientChan),
                            !.clientChan = Tail(@), !.cpc = "recvError"]

\* the second receive; waitForSSH returns to NewSSH, which returns to its caller
RecvError ==
    /\ dial.cpc = "recvError"
    /\ Len(dial.errorChan) > 0
    /\ dial' = [dial EXCEPT !.result = NewSSH(dial.result.session, Head(dial.errorChan)),
                            !.errorChan = Tail(@), !.cpc = "returned"]

\* One second passes. The ticker buffers one tick and drops the others; the
\* timer fires once. A goroutine that can run does so before the clock moves.
Tick ==
    /\ dial.cpc \in {"recvClient", "recvError"}
    /\ dial.now < MaxTime
    /\ \/ dial.gpc = "select" /\ ~ENABLED SelectTick /\ ~ENABLED SelectTimeout
       \/ dial.gpc = "dialing" /\ dial.now < dial.dialEnd
    /\ dial' = [dial EXCEPT !.now = @ + 1, !.tickC = 1,
                            !.timeoutC = IF dial.now + 1 = dial.timeout THEN 1 ELSE @]

(* ---------------- the SSH session layer ---------------- *)
\* The fields of ssh:
\*   Error      s.Error: 0 is nil, k the error of the k-th operation called
\*   mpc        where the calling flow is: "idle" between operations, inside
\*              SendData "spawned" (after the go statement) or "running"
\*              (session.Run has started the command and waits for it)
\*   cur        the operation whose SendData is in progress
\*   log        what the calling flow did, in order: channels opened, commands
\*              executed, bytes received, local files read/created
\*   skipped    the operations that returned at their s.Error check
\*   firstFail  the first operation that failed (0: none)
\*   crashed    a goroutine panicked: the process is gone
\* chans[k] belongs to the k-th operation called:
\*   ch         its ssh session: "none", "open", "closed"
\*   stdinpipe, started   the fields of ssh.Session that StdinPipe and Start share
\*   eof        end-of-input was sent on the channel
\*   remote     the remote command: "none", "running", "exited"
\*   wire       the frames the remote command received on its stdin
\*   wpc        position of the writer goroutine of SendData
\*   wfail      a step of the writer failed
\*   returned   SendData has returned; delivered: with the whole upload on the
\*              wire; leaked: with its writer goroutine still running; lost:
\*              with a step of its writer failed
\*   local      the operation failed on its local file (ReadFile, os.Create)
\*   data, path the payload and remoteFilePath
Paths == {"state.json", "creds.yml", "director.yml", "cloud-config.yml", "dns.yml",
          "id_rsa", "deploy-bosh.log"}
Absent == [exists |-> FALSE, data |-> <<>>]
File(d) == [exists |-> TRUE, data |-> d]
Bytes == {"b"}
RECURSIVE SeqsUpTo(_)
SeqsUpTo(n) ==
    IF n = 0 THEN {<<>>}
    ELSE LET shorter == SeqsUpTo(n - 1)
         IN  shorter \cup {Append(q, b) : q \in {r \in shorter : Len(r) = n - 1},
                                          b \in Bytes}
Payloads == SeqsUpTo(MaxLen)

SSHStart ==
    [Error |-> 0, mpc |-> "idle", cur |-> 0, log |-> <<>>, skipped |-> <<>>,
     firstFail |-> 0, crashed |-> FALSE]

NoChan ==
    [ch |-> "none", stdinpipe |-> FALSE, started |-> FALSE, eof |-> FALSE,
     remote |-> "none", wire |-> <<>>, wpc |-> "none", wfail |-> FALSE,
     returned |-> FALSE, delivered |-> FALSE, leaked |-> FALSE, lost |-> FALSE,
     local |-> FALSE, data |-> <<>>, path |-> <<>>]

DepIdle == [pc |-> "none"]

Event(kind, arg) == [k |-> kind, a |-> arg]
Frame(t, n, name, bytes) == [t |-> t, len |-> n, name |-> name, bytes |-> bytes]

\* A remote path is the sequence of its elements: "dir/name.ext" is
\* <<"dir", "name.ext">>. filepath.Base is the last element and filepath.Dir all
\* but the last; both are "." where there is none.
Base(p) == IF p = <<>> THEN "." ELSE p[Len(p)]
Dir(p) == IF Len(p) <= 1 THEN <<".">> ELSE SubSeq(p, 1, Len(p) - 1)

\* the first operation that failed, once operation k has
FirstFail(s, k) == IF s.firstFail = 0 THEN k ELSE s.firstFail
Failed(s, k) == [s EXCEPT !.Error = k, !.firstFail = FirstFail(s, k)]

\* if s.Error != nil { return }
Skip(s, name) ==
    /\ ssh' = [s EXCEPT !.skipped = Append(@, name)]
    /\ chans' = Append(chans, NoChan)

\* session, err := s.client.NewSession(); if err != nil { s.Error = err; return }
NewSessionFails(s) ==
    /\ ssh' = Failed(s, Len(chans) + 1)
    /\ chans' = Append(chans, NoChan)

\* SSH.Run: the check, NewSession, session.Run(command), s.Error = its result
RunUnguarded(command) ==
    /\ \/ NewSessionFails(ssh)
       \/ \E ok \in BOOLEAN :
             LET k == Len(chans) + 1
                 s == [ssh EXCEPT !.log = @ \o <<Event("open", <<>>),
                                                 Event("exec", command)>>]
             IN  /\ ssh' = IF ok THEN [s EXCEPT !.Error = 0] ELSE Failed(s, k)
                 /\ chans' = Append(chans, [NoChan EXCEPT !.ch = "closed",
                                                          !.remote = "exited"])
    /\ UNCHANGED fs
Run(command) ==
    /\ IF ssh.Error # 0 THEN Skip(ssh, "Run")
       ELSE \/ NewSessionFails(ssh)
            \/ \E ok \in BOOLEAN :
                  LET k == Len(chans) + 1
                      s == [ssh EXCEPT !.log = @ \o <<Event("open", <<>>),
                                                      Event("exec", command)>>]
                  IN  /\ ssh' = IF ok THEN [s EXCEPT !.Error = 0] ELSE Failed(s, k)
                      /\ chans' = Append(chans, [NoChan EXCEPT !.ch = "closed",
                                                               !.remote = "exited"])
    /\ UNCHANGED fs

\* SSH.SendData from its first line to the go statement, entered with the
\* session in state s by the operation called name
SendDataFrom(s, name, srcData, remoteFilePath) ==
    IF s.Error # 0 THEN Skip(s, name)
    ELSE \/ NewSessionFails(s)
         \/ /\ ssh' = [s EXCEPT !.mpc = "spawned", !.cur = Len(chans) + 1,
                                !.log = Append(@, Event("open", <<>>))]
            /\ chans' = Append(chans, [NoChan EXCEPT !.ch = "open", !.wpc = "pipe",
                                                     !.data = srcData,
                                                     !.path = remoteFilePath])

SendData(srcData, remoteFilePath) ==
    /\ SendDataFrom(ssh, "SendData", srcData, remoteFilePath)
    /\ UNCHANGED fs

\* SSH.SendFile: the check, ioutil.ReadFile, then s.SendData
SendFileOpensFirst(filePath, remoteFilePath) ==
    /\ IF ssh.Error # 0 THEN Skip(ssh, "SendFile")
       ELSE LET s == [ssh EXCEPT !.log = @ \o <<Event("open", <<>>),
                                                Event("read", <<filePath>>)>>]
            IN  \/ /\ fs[filePath].exists
                   /\ SendDataFrom(ssh, "SendFile", fs[filePath].data, remoteFilePath)
                \/ /\ ssh' = Failed(s, Len(chans) + 1)
                   /\ chans' = Append(chans, [NoChan EXCEPT !.ch = "closed",
                                                            !.local = TRUE])
    /\ UNCHANGED fs
SendFile(filePath, remoteFilePath) ==
    /\ IF ssh.Error # 0 THEN Skip(ssh, "SendFile")
       ELSE LET s == [ssh EXCEPT !.log = Append(@, Event("read", <<filePath>>))]
            IN  \/ /\ fs[filePath].exists
                   /\ SendDataFrom(s, "SendFile", fs[filePath].data, remoteFilePath)
                \/ \* the file is missing or cannot be read
                   /\ ssh' = Failed(s, Len(chans) + 1)
                   /\ chans' = Append(chans, [NoChan EXCEPT !.local = TRUE])
    /\ UNCHANGED fs

\* SSH.RetrieveFile: the check, os.Create, NewSession, session.Run("cat ...")
\* with the file as its stdout, s.Error = its result
RetrieveFileUnguarded(filePath, remoteFilePath) ==
    LET k == Len(chans) + 1
        created == [ssh EXCEPT !.log = Append(@, Event("create", <<filePath>>))]
    IN  \/ \* os.Create fails
           /\ ssh' = Failed(ssh, k)
           /\ chans' = Append(chans, [NoChan EXCEPT !.local = TRUE])
           /\ UNCHANGED fs
        \/ \* the file is created or truncated, NewSession fails
           /\ NewSessionFails(created)
           /\ fs' = [fs EXCEPT ![filePath] = [exists |-> TRUE, data |-> <<>>]]
        \/ \* the command runs and its output lands in the file
           \E ok \in BOOLEAN, out \in Payloads :
              LET s == [created EXCEPT
                          !.log = @ \o <<Event("open", <<>>),
                                         Event("exec", <<"cat", remoteFilePath>>),
                                         Event("recv", out)>>]
              IN  /\ ssh' = IF ok THEN [s EXCEPT !.Error = 0] ELSE Failed(s, k)
                  /\ chans' = Append(chans, [NoChan EXCEPT !.ch = "closed",
                                                           !.remote = "exited"])
                  /\ fs' = [fs EXCEPT ![filePath] = [exists |-> TRUE,
                                                     data |-> out]]
RetrieveFile(filePath, remoteFilePath) ==
    IF ssh.Error # 0 THEN Skip(ssh, "RetrieveFile") /\ UNCHANGED fs
    ELSE LET k == Len(chans) + 1
             created == [ssh EXCEPT !.log = Append(@, Event("create", <<filePath>>))]
         IN  \/ \* os.Create fails
                /\ ssh' = Failed(ssh, k)
                /\ chans' = Append(chans, [NoChan EXCEPT !.local = TRUE])
                /\ UNCHANGED fs
             \/ \* the file is created or truncated, NewSession fails
                /\ NewSessionFails(created)
                /\ fs' = [fs EXCEPT ![filePath] = [exists |-> TRUE, data |-> <<>>]]
             \/ \* the command runs and its output lands in the file
                \E ok \in BOOLEAN, out \in Payloads :
                   LET s == [created EXCEPT
                               !.log = @ \o <<Event("open", <<>>),
                                              Event("exec", <<"cat", remoteFilePath>>),
                                              Event("recv", out)>>]
                   IN  /\ ssh' = IF ok THEN [s EXCEPT !.Error = 0] ELSE Failed(s, k)
                       /\ chans' = Append(chans, [NoChan EXCEPT !.ch = "closed",
                                                                !.remote = "exited"])
                       /\ fs' = [fs EXCEPT ![filePath] = [exists |-> TRUE,
                                                          data |-> out]]

(* ---------------- SendData: the writer goroutine and session.Run ---------------- *)
\* the process is alive: no goroutine has panicked
Alive == ~ssh.crashed

\* A write on the channel of operation k arrives unless the session is closed,
\* end-of-input was already sent, or the remote command is gone.
Writable(k) ==
    /\ chans[k].ch = "open"
    /\ ~chans[k].eof
    /\ chans[k].remote # "exited"

\* w, _ := session.StdinPipe(); defer w.Close()
\* StdinPipe reads session.started and writes session.stdinpipe while
\* session.Start, in the other goroutine, writes the one and reads the other,
\* with nothing ordering them: the writer may see either value of started once
\* Start has set it. Seeing it set, StdinPipe returns a nil pipe and the error
\* that is dropped, and w.Close on the nil interface panics.
WriterStdinPipe ==
    /\ Alive
    /\ \E k \in 1..Len(chans) :
          /\ chans[k].wpc = "pipe"
          /\ \E seen \in (IF chans[k].started THEN {TRUE, FALSE} ELSE {FALSE}) :
                IF seen
                THEN /\ chans' = [chans EXCEPT ![k].wpc = "panic", ![k].wfail = TRUE]
                     /\ ssh' = [ssh EXCEPT !.crashed = TRUE]
                ELSE /\ chans' = [chans EXCEPT
                                     ![k].wpc = IF chans[k].ch = "closed"
                                                THEN "closing" ELSE "header",
                                     ![k].stdinpipe = TRUE]
                     /\ UNCHANGED ssh
    /\ UNCHANGED <<sw, dial, fs, dep>>

\* one write of the writer: it arrives, or it fails and the failure is dropped;
\* a channel that has failed a write fails the later ones
WriterWrite(k, frame, next) ==
    \/ /\ Writable(k)
       /\ ~chans[k].wfail
       /\ chans' = [chans EXCEPT ![k].wire = Append(@, frame), ![k].wpc = next]
    \/ chans' = [chans EXCEPT ![k].wfail = TRUE, ![k].wpc = next]

\* fmt.Fprintln(w, "C0755", int64(len(srcData)), filepath.Base(remoteFilePath))
WriterHeaderNamesDir ==
    /\ Alive
    /\ \E k \in 1..Len(chans) :
          /\ chans[k].wpc = "header"
          /\ chans[k].ch = "open"
          /\ WriterWrite(k, Frame("C0755", Len(chans[k].data), chans[k].path[1], <<>>),
                         "copy")
    /\ UNCHANGED <<sw, dial, ssh, fs, dep>>
WriterHeader ==
    /\ Alive
    /\ \E k \in 1..Len(chans) :
          /\ chans[k].wpc = "header"
          /\ chans[k].ch = "open"
          /\ WriterWrite(k, Frame("C0755", Len(chans[k].data), Base(chans[k].path),
                               <<>>),
                         "copy")
    /\ UNCHANGED <<sw, dial, ssh, fs, dep>>

\* _, err := io.Copy(w, bytesReader); if err != nil { fmt.Print(err) }
\* an empty payload is copied without a write
WriterCopy ==
    /\ Alive
    /\ \E k \in 1..Len(chans) :
          /\ chans[k].wpc = "copy"
          /\ chans[k].ch = "open"
          /\ IF Len(chans[k].data) = 0
             THEN chans' = [chans EXCEPT ![k].wpc = "term"]
             ELSE WriterWrite(k, Frame("data", Len(chans[k].data), "", chans[k].data),
                              "term")
    /\ UNCHANGED <<sw, dial, ssh, fs, dep>>

\* fmt.Fprintln(w, "\x00")
WriterTerminator ==
    /\ Alive
    /\ \E k \in 1..Len(chans) :
          /\ chans[k].wpc = "term"
          /\ chans[k].ch = "open"
          /\ WriterWrite(k, Frame("nul", 1, "", <<"NUL">>), "close")
    /\ UNCHANGED <<sw, dial, ssh, fs, dep>>

\* the deferred w.Close(): end-of-input on the channel
WriterClose ==
    /\ Alive
    /\ \E k \in 1..Len(chans) :
          /\ chans[k].wpc = "close"
          /\ chans[k].ch = "open"
          /\ IF Writable(k)
             THEN chans' = [chans EXCEPT ![k].eof = TRUE, ![k].wpc = "done"]
             ELSE chans' = [chans EXCEPT ![k].wfail = TRUE, ![k].wpc = "done"]
    /\ UNCHANGED <<sw, dial, ssh, fs, dep>>

\* On a session that SendData has closed every remaining write of the writer
\* fails, as does its w.Close(), and every failure is dropped: the goroutine
\* runs to its end touching nothing but itself.
WriterRunsOut ==
    /\ Alive
    /\ \E k \in 1..Len(chans) :
          /\ chans[k].wpc = "closing"
          /\ chans' = [chans EXCEPT ![k].wfail = TRUE, ![k].wpc = "done"]
    /\ UNCHANGED <<sw, dial, ssh, fs, dep>>

\* the frames a complete upload puts on the wire
Upload(c) ==
    <<Frame("C0755", Len(c.data), Base(c.path), <<>>)>>
    \o (IF Len(c.data) = 0 THEN <<>> ELSE <<Frame("data", Len(c.data), "", c.data)>>)
    \o <<Frame("nul", 1, "", <<"NUL">>)>>

\* whether the upload put the whole file and end-of-input on the wire
Delivered(c) == ~c.wfail /\ c.eof /\ c.wire = Upload(c)

\* SendData returns: the deferred session.Close() closes the channel and the
\* remote command's input is what it got by then. Of the closed session only
\* what the writer goroutine can still reach is kept: session.started, which
\* StdinPipe reads, and whether the goroutine has its pipe ("closing": every
\* write left to it fails).
SendDataReturns(k) ==
    LET c == chans[k]
    IN  /\ chans' = [chans EXCEPT ![k] =
                        [NoChan EXCEPT !.ch = "closed", !.remote = "exited",
                                       !.started = c.started,
                                       !.wfail = c.wfail,
                                       !.lost = c.wfail,
                                       !.returned = TRUE,
                                       !.path = c.path,
                                       !.delivered = Delivered(c),
                                       !.leaked = c.wpc \notin {"done", "panic"},
                                       !.wpc = IF c.wpc \in {"pipe", "done", "panic"}
                                               THEN c.wpc ELSE "closing"]]
        /\ ssh' = [ssh EXCEPT !.mpc = "idle", !.cur = 0,
                              !.firstFail = IF Delivered(c) THEN @
                                            ELSE FirstFail(ssh, k)]

\* session.Run(command): Start sends the exec request. If it fails, Run returns
\* the error, which SendData drops. Otherwise Start sets session.started and,
\* seeing no stdin pipe, gives the command an empty stdin, which ends at once.
SessionStart ==
    /\ Alive
    /\ ssh.mpc = "spawned"
    /\ LET k == ssh.cur
       IN  \/ SendDataReturns(k)
           \/ /\ \E seen \in (IF chans[k].stdinpipe THEN {TRUE, FALSE} ELSE {FALSE}) :
                    chans' = [chans EXCEPT ![k].started = TRUE, ![k].remote = "running",
                                           ![k].eof = IF seen THEN @ ELSE TRUE]
              /\ ssh' = [ssh EXCEPT !.mpc = "running",
                                    !.log = Append(@, Event("exec",
                                               <<"/usr/bin/scp", "-qt">>
                                               \o Dir(chans[k].path)))]
    /\ UNCHANGED <<sw, dial, fs, dep>>

\* the remote /usr/bin/scp -qt exits: at end-of-input, or earlier on a failure
\* of its own
RemoteExits ==
    /\ Alive
    /\ ssh.mpc = "running"
    /\ chans[ssh.cur].remote = "running"
    /\ chans' = [chans EXCEPT ![ssh.cur].remote = "exited"]
    /\ UNCHANGED <<sw, dial, ssh, fs, dep>>

\* session.Wait returns once the command has exited; its error is dropped and
\* SendData returns
SessionWait ==
    /\ Alive
    /\ ssh.mpc = "running"
    /\ chans[ssh.cur].remote = "exited"
    /\ SendDataReturns(ssh.cur)
    /\ UNCHANGED <<sw, dial, fs, dep>>

(* ---------------- waitForSSH alone ---------------- *)
InitDial ==
    /\ sw = SWIdle
    /\ \E t \in 0..MaxTimeout, k \in BOOLEAN : dial = DialStart(t, k)
    /\ ssh = SSHStart
    /\ chans = <<>>
    /\ fs = [p \in Paths |-> Absent]
    /\ dep = DepIdle

NextDial ==
    \/ ParseKey /\ UNCHANGED <<ssh, chans, fs, dep, sw>>
    \/ SelectTick /\ UNCHANGED <<ssh, chans, fs, dep, sw>>
    \/ DialReturn /\ UNCHANGED <<ssh, chans, fs, dep, sw>>
    \/ SelectTimeout /\ UNCHANGED <<ssh, chans, fs, dep, sw>>
    \/ SendClient /\ UNCHANGED <<ssh, chans, fs, dep, sw>>
    \/ SendError /\ UNCHANGED <<ssh, chans, fs, dep, sw>>
    \/ RecvClient /\ UNCHANGED <<ssh, chans, fs, dep, sw>>
    \/ RecvError /\ UNCHANGED <<ssh, chans, fs, dep, sw>>
    \/ Tick /\ UNCHANGED <<ssh, chans, fs, dep, sw>>

SpecDial == InitDial /\ [][NextDial]_vars

\* The scheduler runs a goroutine that can run, every ssh.Dial returns and the
\* clock goes on; a select with several cases ready picks among them at random,
\* so the timeout case, ready again and again, is taken in the end.
SpecDialLive ==
    /\ InitDial
    /\ [][NextDial]_vars
    /\ WF_vars(NextDial)
    /\ SF_vars(SelectTimeout /\ UNCHANGED <<ssh, chans, fs, dep, sw>>)

(* ---------------- chains of operations on one session ---------------- *)
Commands == {<<"true">>}

\* the calling flow is between two operations and may call one more
MayCall == Alive /\ ssh.mpc = "idle" /\ Len(chans) < MaxOps

CallRun ==
    /\ MayCall
    /\ \E c \in Commands : Run(c)
    /\ UNCHANGED <<sw, dial, dep>>
CallSendData ==
    /\ MayCall
    /\ \E d \in Payloads : SendData(d, <<"director.yml">>)
    /\ UNCHANGED <<sw, dial, dep>>
CallSendFile ==
    /\ MayCall
    /\ SendFile("state.json", <<"dir", "state.json">>)
    /\ UNCHANGED <<sw, dial, dep>>
CallRetrieveFile ==
    /\ MayCall
    /\ RetrieveFile("state.json", "state.json")
    /\ UNCHANGED <<sw, dial, dep>>

InitSession ==
    /\ sw = SWIdle
    /\ dial = DialStart(0, TRUE)
    /\ ssh = SSHStart
    /\ chans = <<>>
    /\ \E f \in {Absent} \cup {File(d) : d \in Payloads} :
          fs = [p \in Paths |-> IF p = "state.json" THEN f ELSE Absent]
    /\ dep = DepIdle

NextSession ==
    \/ CallRun
    \/ CallSendData
    \/ CallSendFile
    \/ CallRetrieveFile
    \/ SessionStart
    \/ RemoteExits
    \/ SessionWait
    \/ WriterStdinPipe
    \/ WriterHeader
    \/ WriterCopy
    \/ WriterTerminator
    \/ WriterClose
    \/ WriterRunsOut

SpecSession == InitSession /\ [][NextSession]_vars

(* ---------------- Controller.DeployBosh ---------------- *)
\* The four addresses of the const block and the port suffix. A text is a
\* sequence of pieces of characters: "192.168.65.1" is "1", "92.168.65.", "1".
vpnkitNameserverIP == <<"1", "92.168.65.", "1">>
vpnkitHostIP == <<"1", "92.168.65.", "2">>
vpnkitInternalIP == <<"1", "92.168.65.", "3">>
kvmNameserverIP == <<"1", "92.168.122.", "1">>
Port9999 == <<":9999">>

\* whether old occurs in text at position i
OccursAt(text, old, i) ==
    /\ i + Len(old) - 1 <= Len(text)
    /\ \A j \in 1..Len(old) : text[i + j - 1] = old[j]

\* bytes.Replace(text, old, new, -1) for a non-empty old: the non-overlapping
\* occurrences of old, taken from the left
RECURSIVE ReplaceFrom(_, _, _, _)
ReplaceFrom(text, old, new, i) ==
    IF i > Len(text) THEN <<>>
    ELSE IF OccursAt(text, old, i)
         THEN new \o ReplaceFrom(text, old, new, i + Len(old))
         ELSE <<text[i]>> \o ReplaceFrom(text, old, new, i + 1)
Replace(text, old, new) == ReplaceFrom(text, old, new, 1)

\* lines 66-70: the two substitutions made on linux
PatchDirector(text, ip) ==
    Replace(Replace(text, vpnkitInternalIP \o Port9999, ip \o Port9999),
            vpnkitNameserverIP, kvmNameserverIP)

\* The fields of dep:
\*   pc         the statement DeployBosh is at ("none": not called, "done": returned)
\*   linux      runtime.GOOS == "linux"
\*   ip         what driver.IP returned
\*   connected  NewSSH returned a session; closed: the deferred s.Close() has run
\*   logOpen    deploy-bosh.log is open
\*   directorContents, command   the locals of those names
\*   trace      the local and external steps taken, in order
\*   ret        what DeployBosh returned
NoErr == [kind |-> "nil", at |-> "", k |-> 0]
LocalErr(at) == [kind |-> "local", at |-> at, k |-> 0]
SessionErr(k) == [kind |-> "session", at |-> "", k |-> k]

DepStart(linux) ==
    [pc |-> "ip", linux |-> linux, ip |-> <<>>, connected |-> FALSE, closed |-> FALSE,
     logOpen |-> FALSE, directorContents |-> <<>>, command |-> <<>>, trace |-> <<>>,
     ret |-> [kind |-> "none", at |-> "", k |-> 0]]

\* DeployBosh is at statement pc, and no SendData it called is still running
At(pc) == Alive /\ dep.pc = pc /\ ssh.mpc = "idle"

\* return e, with the deferred s.Close() and logFile.Close()
ReturnClosesOnSuccess(d, e) ==
    [d EXCEPT !.pc = "done", !.ret = e, !.closed = d.connected /\ e.kind = "nil",
              !.logOpen = FALSE]
Return(d, e) ==
    [d EXCEPT !.pc = "done", !.ret = e, !.closed = d.connected, !.logOpen = FALSE]

\* ip, err := driver.IP(c.Config)
DResolve ==
    /\ At("ip")
    /\ \/ dep' = Return(dep, LocalErr("ip"))
       \/ dep' = [dep EXCEPT !.pc = "log", !.ip = <<"10.0.0.", "5">>]
    /\ UNCHANGED <<sw, dial, ssh, chans, fs>>

\* logFile, err := os.Create(".../deploy-bosh.log")
DOpenLog ==
    /\ At("log")
    /\ \/ /\ dep' = Return(dep, LocalErr("log"))
          /\ UNCHANGED fs
       \/ /\ dep' = [dep EXCEPT !.pc = "key", !.logOpen = TRUE]
          /\ fs' = [fs EXCEPT !["deploy-bosh.log"] = File(<<>>)]
    /\ UNCHANGED <<sw, dial, ssh, chans>>

\* key, err := ioutil.ReadFile(".../id_rsa")
DReadKey ==
    /\ At("key")
    /\ \/ dep' = Return(dep, LocalErr("key"))
       \/ /\ fs["id_rsa"].exists
          /\ dep' = [dep EXCEPT !.pc = "connect"]
    /\ UNCHANGED <<sw, dial, ssh, chans, fs>>

\* s, err := NewSSH(ip, "9992", key, 20*time.Second, logFile, logFile)
\* NewSSH returns a session or an error (SpecDial)
DConnect ==
    /\ At("connect")
    /\ \/ dep' = Return(dep, LocalErr("connect"))
       \/ dep' = [dep EXCEPT !.pc = "director", !.connected = TRUE]
    /\ UNCHANGED <<sw, dial, ssh, chans, fs>>

\* directorContents, err := ioutil.ReadFile(directorPath), patched on linux
DReadDirector ==
    /\ At("director")
    /\ \/ dep' = Return(dep, LocalErr("director"))
       \/ /\ fs["director.yml"].exists
          /\ dep' = [dep EXCEPT
                       !.pc = "sendDirector",
                       !.directorContents =
                           IF dep.linux THEN PatchDirector(fs["director.yml"].data, dep.ip)
                           ELSE fs["director.yml"].data]
    /\ UNCHANGED <<sw, dial, ssh, chans, fs>>

\* s.SendData(directorContents, "director.yml")
DSendDirector ==
    /\ At("sendDirector")
    /\ SendData(dep.directorContents, <<"director.yml">>)
    /\ dep' = [dep EXCEPT !.pc = "sendState"]
    /\ UNCHANGED <<sw, dial>>

\* s.SendFile(stateJSONPath, "state.json")
DSendState ==
    /\ At("sendState")
    /\ SendFile("state.json", <<"state.json">>)
    /\ dep' = [dep EXCEPT !.pc = "creds",
                          !.command = <<"/usr/local/bin/bosh", "--tty", "create-env",
                                        "director.yml", "--state", "state.json">>]
    /\ UNCHANGED <<sw, dial>>

\* credhubIsDeployed: os.Stat(credsPath) says the file does not exist
credhubIsDeployed == ~fs["creds.yml"].exists

\* if !credhubIsDeployed() { s.SendFile(credsPath, "creds.yml"); command += ... }
DCreds ==
    /\ At("creds")
    /\ IF ~credhubIsDeployed
       THEN /\ SendFile("creds.yml", <<"creds.yml">>)
            /\ dep' = [dep EXCEPT !.pc = "run",
                                  !.command = @ \o <<"--vars-store", "creds.yml">>]
       ELSE /\ dep' = [dep EXCEPT !.pc = "run"]
            /\ UNCHANGED <<ssh, chans, fs>>
    /\ UNCHANGED <<sw, dial>>

\* time.Sleep(7 * time.Second); s.Run(command)
DRun ==
    /\ At("run")
    /\ Run(dep.command)
    /\ dep' = [dep EXCEPT !.pc = "retrieve"]
    /\ UNCHANGED <<sw, dial>>

\* s.RetrieveFile(stateJSONPath, "state.json")
DRetrieve ==
    /\ At("retrieve")
    /\ RetrieveFile("state.json", "state.json")
    /\ dep' = [dep EXCEPT !.pc = "check"]
    /\ UNCHANGED <<sw, dial>>

\* if s.Error != nil { return s.Error }; on another GOOS than linux, return nil
DCheckIgnoresError ==
    /\ At("check")
    /\ dep' = IF dep.linux THEN [dep EXCEPT !.pc = "cloud"] ELSE Return(dep, NoErr)
    /\ UNCHANGED <<sw, dial, ssh, chans, fs>>
DCheck ==
    /\ At("check")
    /\ dep' = IF ssh.Error # 0 THEN Return(dep, SessionErr(ssh.Error))
              ELSE IF dep.linux THEN [dep EXCEPT !.pc = "cloud"]
              ELSE Return(dep, NoErr)
    /\ UNCHANGED <<sw, dial, ssh, chans, fs>>

\* one follow-up of the linux branch: read the file, replace old by the KVM
\* nameserver, write it back, run bosh on it; the result of bosh is dropped.
\* A WriteFile that fails has opened the file or not: it is left as it was or
\* truncated.
FollowUpReturnsBoshError(path, old, verb, next) ==
    \/ /\ dep' = Return([dep EXCEPT !.trace = Append(@, <<"read", path>>)],
                        LocalErr(path))
       /\ UNCHANGED fs
    \/ /\ fs[path].exists
       /\ fs' = [fs EXCEPT ![path].data = Replace(@, old, kvmNameserverIP)]
       /\ \E boshOK \in BOOLEAN :
             LET d == [dep EXCEPT !.trace = @ \o <<<<"read", path>>, <<"write", path>>,
                                                   <<"bosh", verb>>,
                                                   <<IF boshOK THEN "ok" ELSE "failed",
                                                     verb>>>>]
             IN  dep' = IF boshOK THEN [d EXCEPT !.pc = next]
                        ELSE Return(d, LocalErr(verb))
FollowUp(path, old, verb, next) ==
    \/ /\ dep' = Return([dep EXCEPT !.trace = Append(@, <<"read", path>>)],
                        LocalErr(path))
       /\ UNCHANGED fs
    \/ /\ fs[path].exists
       /\ dep' = Return([dep EXCEPT !.trace = @ \o <<<<"read", path>>, <<"write", path>>>>],
                        LocalErr(path))
       /\ \/ UNCHANGED fs
          \/ fs' = [fs EXCEPT ![path].data = <<>>]
    \/ /\ fs[path].exists
       /\ fs' = [fs EXCEPT ![path].data = Replace(@, old, kvmNameserverIP)]
       /\ \E boshOK \in BOOLEAN :
             dep' = [dep EXCEPT !.pc = next,
                                !.trace = @ \o <<<<"read", path>>, <<"write", path>>,
                                                 <<"bosh", verb>>,
                                                 <<IF boshOK THEN "ok" ELSE "failed", verb>>>>]

\* lines 98-110: cloud-config.yml and bosh -n update-cloud-config
DCloudConfig ==
    /\ At("cloud")
    /\ FollowUp("cloud-config.yml", vpnkitNameserverIP, "update-cloud-config", "dns")
    /\ UNCHANGED <<sw, dial, ssh, chans>>

\* lines 112-124: dns.yml and bosh -n update-runtime-config
DDnsConfig ==
    /\ At("dns")
    /\ FollowUp("dns.yml", vpnkitHostIP, "update-runtime-config", "nil")
    /\ UNCHANGED <<sw, dial, ssh, chans>>

\* return nil
DReturnNil ==
    /\ At("nil")
    /\ dep' = Return(dep, NoErr)
    /\ UNCHANGED <<sw, dial, ssh, chans, fs>>

Texts == {<<"a">>, vpnkitInternalIP \o Port9999 \o vpnkitNameserverIP}

Init ==
    /\ sw = SWIdle
    /\ dial = DialStart(0, TRUE)
    /\ ssh = SSHStart
    /\ chans = <<>>
    /\ \E creds \in {Absent, File(<<"c">>)}, text \in Texts :
          fs = [p \in Paths |->
                  CASE p = "creds.yml" -> creds
                    [] p = "deploy-bosh.log" -> Absent
                    [] p = "state.json" -> File(<<"s">>)
                    [] p = "id_rsa" -> File(<<"k">>)
                    [] p = "cloud-config.yml" -> File(vpnkitNameserverIP)
                    [] p = "dns.yml" -> File(vpnkitHostIP)
                    [] OTHER -> File(text)]
    /\ \E linux \in BOOLEAN : dep = DepStart(linux)

Next ==
    \/ DResolve
    \/ DOpenLog
    \/ DReadKey
    \/ DConnect
    \/ DReadDirector
    \/ DSendDirector
    \/ DSendState
    \/ DCreds
    \/ DRun
    \/ DRetrieve
    \/ DCheck
    \/ DCloudConfig
    \/ DDnsConfig
    \/ DReturnNil
    \/ SessionStart
    \/ RemoteExits
    \/ SessionWait
    \/ WriterStdinPipe
    \/ WriterHeader
    \/ WriterCopy
    \/ WriterTerminator
    \/ WriterClose
    \/ WriterRunsOut

Spec == Init /\ [][Next]_vars

(* ---------------- the substitutions on director.yml alone ---------------- *)
\* the pieces the texts are made of
Pieces == {"1", "92.168.65.", "3", ":9999"}
RECURSIVE TextsUpTo(_)
TextsUpTo(n) ==
    IF n = 0 THEN {<<>>}
    ELSE LET shorter == TextsUpTo(n - 1)
         IN  shorter \cup {Append(q, b) : q \in {r \in shorter : Len(r) = n - 1},
                                          b \in Pieces}

\* lines 66-70 applied to the text in dep.text, with the address driver.IP gave
PatchPass ==
    /\ dep.pc = "patch"
    /\ dep.passes < 2
    /\ dep' = [dep EXCEPT !.passes = @ + 1,
                          !.before = dep.text,
                          !.text = PatchDirector(dep.text, dep.ip)]
    /\ UNCHANGED <<sw, dial, ssh, chans, fs>>

InitPatch ==
    /\ sw = SWIdle
    /\ dial = DialStart(0, TRUE)
    /\ ssh = SSHStart
    /\ chans = <<>>
    /\ fs = [p \in Paths |-> Absent]
    /\ \E text \in TextsUpTo(MaxText) :
          dep = [pc |-> "patch", ip |-> <<"10.0.0.", "5">>, passes |-> 0,
                 before |-> text, text |-> text]

NextPatch == PatchPass

SpecPatch == InitPatch /\ [][NextPatch]_vars

(* ---------------- the service wrapper client ---------------- *)
\* A label is the sequence of its dot-separated elements: "org.x" is
\* <<"org", "x">>. A file of the work directory is a pair of a name and a
\* suffix: the wrapper binary <<name, "">>, its definition <<name, ".yml">>.
\* The fields of sw:
\*   files   the files that exist in the work directory
\*   n       the number of calls made
\*   ret     the last call: op, label, err ("nil" or "err"), running (the
\*           bool of IsRunning), did: the commands it executed and the files
\*           it removed, in order
\*   prev    the call before it
Labels == {<<"org", "x">>, <<"y">>}
Names == {"x", "y"}
WorkdirFiles == {<<name, suffix>> : name \in Names, suffix \in {"", ".yml"}}
NoCall == [op |-> "none", label |-> <<>>, err |-> "nil", running |-> FALSE, did |-> <<>>]

\* filepath.Join(s.workdir, splits[len(splits)-1])
swrapperPath(label) == <<label[Len(label)], "">>
\* swrapperPath + ".yml"
definitionConfig(label) == <<label[Len(label)], ".yml">>
\* os.Stat(swrapperPath) says the file does not exist
swrapperNotExist(label) == swrapperPath(label) \notin sw.files

\* a call returns: what it did, what it returned, the work directory after it
Returns(op, label, err, running, did, files) ==
    sw' = [sw EXCEPT !.n = @ + 1, !.prev = sw.ret, !.files = files,
                     !.ret = [op |-> op, label |-> label, err |-> err,
                              running |-> running, did |-> did]]
MayCallWrapper == sw.n < MaxCalls
Exec(label, verb) == <<"exec", swrapperPath(label), verb>>
Remove(file) == <<"remove", file, "">>

\* Install: copyBinary, os.Create of the definition, Encode, exec install; it
\* returns at the first step that fails
Install ==
    /\ MayCallWrapper
    /\ \E label \in Labels :
          LET bin == swrapperPath(label)
              def == definitionConfig(label)
          IN  \/ \* os.Create(dest) fails
                 Returns("Install", label, "err", FALSE, <<>>, sw.files)
              \/ \* Chmod, os.Open(src), io.Copy or os.Create(definitionConfig) fails
                 Returns("Install", label, "err", FALSE, <<>>, sw.files \cup {bin})
              \/ \* Encode fails
                 Returns("Install", label, "err", FALSE, <<>>, sw.files \cup {bin, def})
              \/ \E ok \in BOOLEAN :
                    Returns("Install", label, IF ok THEN "nil" ELSE "err", FALSE,
                            <<Exec(label, "install")>>, sw.files \cup {bin, def})
    /\ UNCHANGED <<dial, ssh, chans, fs, dep>>

\* Uninstall: the check, exec uninstall, RemoveAll of the binary, RemoveAll of
\* the definition
UninstallUnguarded ==
    /\ MayCallWrapper
    /\ \E label \in Labels :
          LET bin == swrapperPath(label)
              def == definitionConfig(label)
              run == <<Exec(label, "uninstall")>>
          IN  \/ Returns("Uninstall", label, "err", FALSE, run, sw.files)
              \/ /\ bin \in sw.files
                 /\ Returns("Uninstall", label, "nil", FALSE,
                            run \o <<Remove(bin), Remove(def)>>, sw.files \ {bin, def})
    /\ UNCHANGED <<dial, ssh, chans, fs, dep>>
Uninstall ==
    /\ MayCallWrapper
    /\ \E label \in Labels :
          LET bin == swrapperPath(label)
              def == definitionConfig(label)
              run == <<Exec(label, "uninstall")>>
          IN  IF swrapperNotExist(label)
              THEN Returns("Uninstall", label, "nil", FALSE, <<>>, sw.files)
              ELSE \/ \* the command fails
                      Returns("Uninstall", label, "err", FALSE, run, sw.files)
                   \/ \* os.RemoveAll(swrapperPath) fails
                      Returns("Uninstall", label, "err", FALSE,
                              run \o <<Remove(bin)>>, sw.files)
                   \/ \* os.RemoveAll(definitionConfig) fails
                      Returns("Uninstall", label, "err", FALSE,
                              run \o <<Remove(bin), Remove(def)>>, sw.files \ {bin})
                   \/ Returns("Uninstall", label, "nil", FALSE,
                              run \o <<Remove(bin), Remove(def)>>, sw.files \ {bin, def})
    /\ UNCHANGED <<dial, ssh, chans, fs, dep>>

\* Start: exec start, with no check; a binary that is not there cannot run
Start ==
    /\ MayCallWrapper
    /\ \E label \in Labels, ok \in BOOLEAN :
          Returns("Start", label,
                  IF ok /\ ~swrapperNotExist(label) THEN "nil" ELSE "err", FALSE,
                  <<Exec(label, "start")>>, sw.files)
    /\ UNCHANGED <<dial, ssh, chans, fs, dep>>

\* Stop: the check, exec stop
Stop ==
    /\ MayCallWrapper
    /\ \E label \in Labels :
          IF swrapperNotExist(label)
          THEN Returns("Stop", label, "nil", FALSE, <<>>, sw.files)
          ELSE \E ok \in BOOLEAN :
                  Returns("Stop", label, IF ok THEN "nil" ELSE "err", FALSE,
                          <<Exec(label, "stop")>>, sw.files)
    /\ UNCHANGED <<dial, ssh, chans, fs, dep>>

\* IsRunning: the check, exec status, the output compared with StatusRunning
IsRunning ==
    /\ MayCallWrapper
    /\ \E label \in Labels :
          IF swrapperNotExist(label)
          THEN Returns("IsRunning", label, "nil", FALSE, <<>>, sw.files)
          ELSE \/ Returns("IsRunning", label, "err", FALSE,
                          <<Exec(label, "status")>>, sw.files)
               \/ \E running \in BOOLEAN :
                     Returns("IsRunning", label, "nil", running,
                             <<Exec(label, "status")>>, sw.files)
    /\ UNCHANGED <<dial, ssh, chans, fs, dep>>

\* New(binaryPath, workdir) touches no file: the work directory holds what it holds
InitWrapper ==
    /\ dial = DialStart(0, TRUE)
    /\ ssh = SSHStart
    /\ chans = <<>>
    /\ fs = [p \in Paths |-> Absent]
    /\ dep = DepIdle
    /\ \E files \in SUBSET WorkdirFiles :
          sw = [files |-> files, n |-> 0, ret |-> NoCall, prev |-> NoCall]

NextWrapper ==
    \/ Install
    \/ Uninstall
    \/ Start
    \/ Stop
    \/ IsRunning

SpecWrapper == InitWrapper /\ [][NextWrapper]_vars

(* ======================= claims: dial supervisor ======================= *)

\* C5: when no dial attempt succeeds, Connect returns its timeout error no
\* earlier than the timeout and no later than the timeout plus one retry
\* interval (one second).
C5_DialRetryBound ==
    (dial.cpc = "returned" /\ dial.result.err.kind = "timeout")
        => (dial.now >= dial.timeout /\ dial.now <= dial.timeout + 1)

\* C6: if the timeout elapses before any dial attempt has succeeded, Connect
\* returns a timeout error, never a session, and the error wraps the error of
\* the last dial attempt made.
C6_TimeoutWrapsLastDialError ==
    (dial.cpc = "returned" /\ dial.keyOK /\ (dial.succAttempt = 0 \/ dial.succTime > dial.timeout))
        => /\ dial.result.session = 0
           /\ dial.result.err.kind = "timeout"
           /\ dial.attempts > 0 => dial.result.err.wraps = dial.attempts

\* C7: NewSSH returns either a session with a nil error or no session with an
\* error, and the client in the session is the one of the successful attempt.
C7_ExactlyOneOfSessionError ==
    dial.cpc = "returned"
        => \/ /\ dial.result.session # 0
              /\ dial.result.err.kind = "nil"
              /\ dial.result.session = dial.succAttempt
           \/ /\ dial.result.session = 0
              /\ dial.result.err.kind \in {"key", "timeout"}
C7_Witness ==
    dial.cpc = "returned" /\ dial.result.session # 0 /\ dial.attempts > 1

\* C8: when the Nth dial attempt is the first to succeed, exactly N attempts
\* are made, each started by its own tick at least one second after the one
\* before and only after that one has returned; the session returned is the
\* one of attempt N, and no attempt follows the success.
C8_ExactlyNAttempts ==
    /\ dial.succAttempt # 0 => dial.attempts = dial.succAttempt
    /\ Len(dial.starts) = dial.attempts
    /\ \A i \in 1..(Len(dial.starts) - 1) :
          /\ i <= Len(dial.ends)
          /\ dial.starts[i + 1] >= dial.ends[i]
          /\ dial.starts[i + 1] >= dial.starts[i] + 1
    /\ (dial.cpc = "returned" /\ dial.succAttempt # 0) => dial.result.session = dial.succAttempt
C8_Witness ==
    dial.cpc = "returned" /\ dial.succAttempt = 3 /\ dial.gpc = "done"

\* C9: a key that does not parse makes Connect return the key-format error at
\* once: no goroutine, no dial attempt, no waiting.
C9_KeyFormatFailsFast ==
    (~dial.keyOK /\ dial.cpc # "parse")
        => /\ dial.cpc = "returned"
           /\ dial.result = [session |-> 0, err |-> KeyFormatErr]
           /\ dial.attempts = 0
           /\ dial.gpc = "none"
           /\ dial.now = 0
C9_Witness ==
    ~dial.keyOK /\ dial.cpc = "returned" /\ dial.timeout > 0

(* ======================= claims: session layer ======================= *)

\* what the remote commands of the sessions have received
Received(cs, k) == IF k <= Len(cs) THEN cs[k].wire ELSE <<>>

\* C1: once the error slot is non-empty, no step changes what the session has
\* done: no channel is opened, no command executed, nothing sent on a wire or
\* received, no local file read, created or truncated.
C1_StickyNoEffect ==
    [][ssh.Error # 0 =>
          /\ ssh.log' = ssh.log
          /\ fs' = fs
          /\ \A k \in 1..Len(chans') :
                /\ Received(chans', k) = Received(chans, k)
                /\ k > Len(chans) => chans'[k].ch = "none"]_vars
C1_Witness ==
    ssh.Error # 0 /\ Len(ssh.skipped) >= 1 /\ ssh.log # <<>>

\* C2: once the error slot holds an error no later call overwrites or clears
\* it, and between operations the slot holds the error of the first operation
\* that failed.
C2_FirstErrorWins ==
    [][/\ ssh.Error # 0 => ssh.Error' = ssh.Error
       /\ (ssh.mpc' = "idle" /\ ssh.firstFail' # 0) => ssh.Error' = ssh.firstFail']_vars

\* C3: a SendData that returns with a failed writer leaves the error slot
\* non-empty.
C3_WriterFailureFolded ==
    \A k \in 1..Len(chans) :
        (chans[k].returned /\ chans[k].lost) => ssh.Error # 0

\* C4: the writer holds the stdin pipe before the receiving command is
\* started, has put header, payload, terminator and end-of-input on the wire
\* before that command exits, and has finished when SendData returns.
C4_UploadSynchronized ==
    \A k \in 1..Len(chans) :
        /\ (chans[k].ch = "open" /\ chans[k].started) => chans[k].stdinpipe
        /\ (chans[k].ch = "open" /\ chans[k].remote = "exited")
              => (chans[k].wpc = "done" /\ Delivered(chans[k]))
        /\ chans[k].returned => ~chans[k].leaked

(* ======================= claims: deployment workflow ======================= *)

\* C10: once a state of the workflow has failed no later state has an effect,
\* and DeployBosh returns that first failure.
C10_FailFast ==
    [][/\ ssh.firstFail # 0 =>
             /\ ssh.log' = ssh.log
             /\ fs' = fs
             /\ dep.trace' = dep.trace
       /\ dep.pc = "done" => (ssh.log' = ssh.log /\ fs' = fs /\ dep' = dep)
       /\ (dep.pc' = "done" /\ ssh.firstFail' # 0)
             => dep.ret' = SessionErr(ssh.firstFail')]_vars

\* the commands the calling flow has executed on the remote host, in order
Executed == SelectSeq(ssh.log, LAMBDA e : e.k = "exec")
IsDeploy(e) == e.a[1] = "/usr/local/bin/bosh"
HasVarsStore(cmd) ==
    \E i \in 1..(Len(cmd) - 1) : cmd[i] = "--vars-store" /\ cmd[i + 1] = "creds.yml"
\* the uploads of the credentials file
CredsUploads == {k \in 1..Len(chans) : chans[k].path = <<"creds.yml">>}

\* C11: with creds.yml absent nothing of it is read or uploaded and the deploy
\* command executed has no vars-store flag; with it present the deploy command
\* executed has the flag and runs after the upload of creds.yml has completed.
C11_CredentialsBranching ==
    IF fs["creds.yml"].exists
    THEN \A i \in 1..Len(Executed) :
            IsDeploy(Executed[i]) =>
               /\ HasVarsStore(Executed[i].a)
               /\ \E k \in CredsUploads : chans[k].returned /\ chans[k].delivered
    ELSE /\ CredsUploads = {}
         /\ \A i \in 1..Len(ssh.log) : ssh.log[i].a # <<"creds.yml">>
         /\ \A i \in 1..Len(Executed) : ~HasVarsStore(Executed[i].a)

\* the invocations of the bosh CLI made by DeployBosh, in order
BoshCalls == SelectSeq(dep.trace, LAMBDA e : e[1] = "bosh")
\* whether old occurs in text
Occurs(text, old) == \E i \in 1..Len(text) : OccursAt(text, old, i)

\* C12: bosh update-cloud-config and update-runtime-config are not invoked
\* unless GOOS is linux; on linux only after the retrieval of state.json has run
\* and left s.Error nil, cloud-config first, each right after its patched file
\* was written.
C12_FollowUpsGuarded ==
    /\ ~dep.linux => BoshCalls = <<>>
    /\ BoshCalls # <<>> =>
          /\ ssh.Error = 0
          /\ \E i \in 1..Len(Executed) : Executed[i].a = <<"cat", "state.json">>
    /\ BoshCalls \in {<<>>, <<<<"bosh", "update-cloud-config">>>>,
                      <<<<"bosh", "update-cloud-config">>,
                        <<"bosh", "update-runtime-config">>>>}
    /\ \A i \in 1..Len(dep.trace) :
          dep.trace[i][1] = "bosh" =>
             LET path == IF dep.trace[i][2] = "update-cloud-config"
                         THEN "cloud-config.yml" ELSE "dns.yml"
                 old == IF dep.trace[i][2] = "update-cloud-config"
                        THEN vpnkitNameserverIP ELSE vpnkitHostIP
             IN  /\ i > 1
                 /\ dep.trace[i - 1] = <<"write", path>>
                 /\ ~Occurs(fs[path].data, old)
                 /\ Occurs(fs[path].data, kvmNameserverIP)
C12_Witness ==
    dep.linux /\ Len(BoshCalls) = 2 /\ dep.pc = "done"

\* C13: once NewSSH has returned a session, DeployBosh closes its connection
\* on every return, whatever s.Error holds, and not before its last remote
\* operation.
C13_ClosedOnEveryExit ==
    [][/\ dep.pc' = "done" => dep.closed' = dep.connected'
       /\ dep.closed' => (dep.pc' = "done" /\ ssh.mpc' = "idle")
       /\ dep.closed => (dep.closed' /\ ssh.log' = ssh.log)]_vars
C13_Witness ==
    dep.pc = "done" /\ dep.connected /\ dep.closed /\ ssh.Error # 0

\* C14: a SendFile that cannot read its local file and a RetrieveFile that
\* cannot create its local file store the error in s.Error, open no channel and
\* run no remote command.
C14_LocalFailureBeforeRemote ==
    [][\A k \in 1..Len(chans') :
          chans'[k].local =>
             /\ ssh.Error' = k
             /\ chans'[k].ch = "none"
             /\ chans'[k].remote = "none"
             /\ chans'[k].wire = <<>>
             /\ k > Len(chans) =>
                   \A i \in (Len(ssh.log) + 1)..Len(ssh.log') :
                      ssh.log'[i].k \notin {"open", "exec", "recv"}]_vars
C14_Witness ==
    \E k \in 2..Len(chans) : chans[k].local /\ chans[1].delivered

\* the lines and bytes of an upload of data to path: "C0755 L base", the L
\* bytes when there are any, the line holding one NUL
Framing(data, path) ==
    <<[t |-> "C0755", len |-> Len(data), name |-> path[Len(path)], bytes |-> <<>>]>>
    \o (IF data = <<>> THEN <<>>
        ELSE <<[t |-> "data", len |-> Len(data), name |-> "", bytes |-> data]>>)
    \o <<[t |-> "nul", len |-> 1, name |-> "", bytes |-> <<"NUL">>]>>
IsPrefix(p, q) == Len(p) <= Len(q) /\ SubSeq(q, 1, Len(p)) = p

\* C15: what the receiving command gets on its stdin is at every moment a
\* prefix of header, payload, terminator; a writer that ends without a failed
\* step has sent all of it and then end-of-input; the receiving command is
\* /usr/bin/scp -qt on the directory part of the remote path.
C15_UploadFraming ==
    \A k \in 1..Len(chans) :
        chans[k].ch = "open" =>
           /\ IsPrefix(chans[k].wire, Framing(chans[k].data, chans[k].path))
           /\ (chans[k].wpc = "done" /\ ~chans[k].wfail) =>
                 /\ chans[k].wire = Framing(chans[k].data, chans[k].path)
                 /\ chans[k].eof
           /\ chans[k].started =>
                 ssh.log[Len(ssh.log)].a =
                    <<"/usr/bin/scp", "-qt">>
                    \o (IF Len(chans[k].path) = 1 THEN <<".">>
                        ELSE SubSeq(chans[k].path, 1, Len(chans[k].path) - 1))
C15_Witness ==
    \E k \in 1..Len(chans) :
        /\ chans[k].ch = "open" /\ chans[k].wpc = "done" /\ ~chans[k].wfail
        /\ chans[k].started /\ chans[k].data = <<>> /\ Len(chans[k].path) = 2

\* C16: the two substitutions of the linux branch applied to a text a second
\* time change nothing, and the text they gave the first time holds neither
\* 192.168.65.3:9999 nor 192.168.65.1.
C16_IdempotentSubstitution ==
    /\ dep.passes >= 1 =>
          /\ ~Occurs(dep.text, vpnkitInternalIP \o Port9999)
          /\ ~Occurs(dep.text, vpnkitNameserverIP)
    /\ dep.passes = 2 => dep.text = dep.before

InTrace(e) == \E i \in 1..Len(dep.trace) : dep.trace[i] = e

\* C17: a bosh invocation that fails changes nothing of what DeployBosh does
\* next or returns: after update-cloud-config, failed or not, comes dns.yml,
\* after update-runtime-config the return of nil; once bosh has been invoked
\* the only errors returned are those of reading or writing dns.yml.
C17_BoshFailureIgnored ==
    /\ (InTrace(<<"failed", "update-cloud-config">>) /\ ~InTrace(<<"read", "dns.yml">>))
          => dep.pc = "dns"
    /\ InTrace(<<"failed", "update-runtime-config">>)
          => (dep.pc \in {"nil", "done"} /\ (dep.pc = "done" => dep.ret = NoErr))
    /\ (dep.pc = "done" /\ Len(BoshCalls) = 2) => dep.ret = NoErr
    /\ (dep.pc = "done" /\ Len(BoshCalls) = 1) => dep.ret = LocalErr("dns.yml")
C17_Witness ==
    /\ dep.pc = "done" /\ dep.ret = NoErr
    /\ InTrace(<<"failed", "update-cloud-config">>)
    /\ InTrace(<<"failed", "update-runtime-config">>)
    /\ fs["dns.yml"].data = kvmNameserverIP

\* C18: DeployBosh changes the local state.json only in its retrieval step,
\* and only with s.Error nil: when the deploy command or an operation before
\* it has put an error in the slot, the retrieval is skipped and state.json is
\* as it was before the call.
C18_StateFileFrame ==
    [][/\ fs'["state.json"] # fs["state.json"] => (dep.pc = "retrieve" /\ ssh.Error = 0)
       /\ (\E i \in 1..Len(ssh.skipped') : ssh.skipped'[i] = "RetrieveFile")
             => fs'["state.json"] = File(<<"s">>)]_vars
C18_Witness ==
    /\ dep.pc = "done"
    /\ ssh.skipped = <<"RetrieveFile">>
    /\ \E i \in 1..Len(Executed) : IsDeploy(Executed[i])
    /\ fs["state.json"] = File(<<"s">>)

\* C19: the goroutine of waitForSSH never waits on a send: it sends on
\* clientChan and on errorChan once each, into empty buffers, and ends; and
\* every call of waitForSSH returns.
C19_HandoffNeverDeadlocks ==
    /\ [](/\ dial.gpc = "sendClient" => (dial.clientChan = <<>> /\ dial.cpc = "recvClient")
          /\ dial.gpc = "sendError" => (dial.errorChan = <<>> /\ dial.cpc # "returned")
          /\ Len(dial.clientChan) <= 1 /\ Len(dial.errorChan) <= 1)
    /\ <>(dial.cpc = "returned" /\ dial.gpc \in {"none", "done"}
          /\ dial.clientChan = <<>> /\ dial.errorChan = <<>>)
C19_Witness ==
    /\ dial.cpc = "returned" /\ dial.gpc = "done"
    /\ dial.result.err.kind = "timeout" /\ dial.attempts >= 2

\* C20: Uninstall, Stop and IsRunning called with a label whose wrapper binary
\* is not in the work directory return success (IsRunning: false) having
\* executed no command and removed no file; an Uninstall that follows a
\* successful Uninstall of the same label is such a call.
C20_AbsentWrapperNoOp ==
    [][sw.n' = sw.n + 1 =>
          /\ (sw.ret.op' \in {"Uninstall", "Stop", "IsRunning"}
              /\ <<sw.ret.label'[Len(sw.ret.label')], "">> \notin sw.files)
                => /\ sw.ret.err' = "nil"
                   /\ ~sw.ret.running'
                   /\ sw.ret.did' = <<>>
                   /\ sw.files' = sw.files
          /\ (sw.ret.op = "Uninstall" /\ sw.ret.err = "nil"
              /\ sw.ret.op' = "Uninstall" /\ sw.ret.label' = sw.ret.label)
                => /\ sw.ret.err' = "nil"
                   /\ sw.ret.did' = <<>>
                   /\ sw.files' = sw.files]_vars
C20_Witness ==
    /\ sw.prev.op = "Uninstall" /\ sw.prev.err = "nil" /\ sw.prev.did # <<>>
    /\ sw.ret.op = "Uninstall" /\ sw.ret.label = sw.prev.label
    /\ sw.ret.err = "nil" /\ sw.ret.did = <<>>

====
